---- MODULE Spec2Model ----
(***************************************************************************)
(* Model of main.py: a binary cyclic (n, k) block code with generator      *)
(* polynomial g(x) over GF(2).  Coefficient lists are sequences of 0/1,    *)
(* highest-degree coefficient first, as sympy's Poly(list) reads them.     *)
(* Python indices are 0-based; sequence positions here are 1-based, so     *)
(* Python's a[i] is a[i + 1] below.                                        *)
(***************************************************************************)
EXTENDS Integers, Sequences, FiniteSets, TLC

\* Bounds of the exhaustively enumerated configurations and of the channel.
MaxN == 5
MaxFlips == 2

\* The configuration of main().
MainN == 15
MainK == 7
MainG == <<1, 1, 1, 0, 1, 0, 0, 0, 1>>

Bit == {0, 1}
BitSeqs(len) == [1..len -> Bit]
Zeros(len) == [i \in 1..len |-> 0]

\* np.flip of a one-dimensional array.
flip1(a) == [i \in 1..Len(a) |-> a[Len(a) + 1 - i]]

\* A variant of flip that reverses the rows only (np.flip(M, axis=0)).
flip_axis0(M) == [i \in 1..Len(M) |-> M[Len(M) + 1 - i]]

\* np.flip of a two-dimensional array: both axes are reversed.
flip(M) == [i \in 1..Len(M) |-> flip1(M[Len(M) + 1 - i])]

\* Poly(list, x, domain=GF(2)): the dense representation drops leading
\* zero coefficients; the zero polynomial is the empty sequence.
RECURSIVE Poly(_)
Poly(a) == IF a = <<>> THEN <<>> ELSE IF a[1] = 0 THEN Poly(Tail(a)) ELSE a

\* Poly.all_coeffs(): highest degree first; [0] for the zero polynomial.
all_coeffs(p) == IF p = <<>> THEN <<0>> ELSE p

\* poly_a * poly_b over GF(2).
PolyMul(a, b) ==
    IF a = <<>> \/ b = <<>> THEN <<>>
    ELSE [p \in 1..(Len(a) + Len(b) - 1) |->
            Cardinality({i \in 1..Len(a) :
                /\ p + 1 - i \in 1..Len(b)
                /\ a[i] = 1
                /\ b[p + 1 - i] = 1}) % 2]

\* Long division over GF(2): r is the running remainder, q the quotient
\* coefficients (degree Len(q) - 1 downto 0).
RECURSIVE DivLoop(_, _, _)
DivLoop(r, b, q) ==
    IF Len(r) < Len(b) THEN [quo |-> Poly(q), rem |-> r]
    ELSE LET d == Len(r) - Len(b)
             r2 == [i \in 1..Len(r) |->
                      (r[i] + (IF i <= Len(b) THEN b[i] ELSE 0)) % 2]
             q2 == [q EXCEPT ![Len(q) - d] = 1]
         IN DivLoop(Poly(r2), b, q2)

\* div(a, b, domain=GF(2)) for a nonzero divisor b.
PolyDiv(a, b) ==
    DivLoop(a, b, Zeros(IF Len(a) >= Len(b) THEN Len(a) - Len(b) + 1 ELSE 0))

\* A variant of poly_div_to_k that returns the padded coefficients without
\* reversing them.
poly_div_to_k_unflipped(k, g, n) ==
    LET remainder_coeffs == all_coeffs(PolyDiv(<<1>> \o Zeros(k), Poly(g)).rem)
    IN IF Len(remainder_coeffs) < n
       THEN Zeros(n - Len(remainder_coeffs)) \o remainder_coeffs
       ELSE remainder_coeffs

poly_div_to_k(k, g, n) ==
    LET g_poly == Poly(g)
        xk == <<1>> \o Zeros(k)
        remainder_coeffs == all_coeffs(PolyDiv(xk, g_poly).rem)
        padded == IF Len(remainder_coeffs) < n
                  THEN Zeros(n - Len(remainder_coeffs)) \o remainder_coeffs
                  ELSE remainder_coeffs
    IN flip1(padded)

poly_div(a, b) == all_coeffs(PolyDiv(Poly(a), Poly(b)).quo)

poly_mul(a, b) == all_coeffs(PolyMul(Poly(a), Poly(b)))

\* G[i, i:i+len(g)] = g raises ValueError when the slice is cut short by
\* the row's end, i.e. when i + len(g) > n for some row i.
generate_matrices(n, k, g) ==
    IF \E i \in 0..(k - 1) : i + Len(g) > n
    THEN [exc |-> "ValueError", G |-> <<>>, H |-> <<>>]
    ELSE [exc |-> "none",
          G |-> [r \in 1..k |-> [c \in 1..n |->
                    IF (r - 1) <= (c - 1) /\ (c - 1) < (r - 1) + Len(g)
                    THEN g[c - r + 1] ELSE 0]],
          H |-> [r \in 1..(n - k) |-> [c \in 1..n |->
                    poly_div_to_k(c - 1, g, n)[r]]]]

\* np.dot(M, v) % 2
dot2(M, v) ==
    [r \in 1..Len(M) |->
        Cardinality({c \in 1..Len(v) : M[r][c] = 1 /\ v[c] = 1}) % 2]

\* The loop of generate_error_syndromes: a later position overwrites an
\* earlier one under the same key.
RECURSIVE SyndromeLoop(_, _, _, _)
SyndromeLoop(Hm, n, i, error_syndromes) ==
    IF i >= n THEN error_syndromes
    ELSE LET error_vector == [p \in 1..n |-> IF p = i + 1 THEN 1 ELSE 0]
             syndrome == dot2(Hm, error_vector)
         IN SyndromeLoop(Hm, n, i + 1, (syndrome :> i) @@ error_syndromes)

generate_error_syndromes(Hm, n) == SyndromeLoop(Hm, n, 0, <<>>)

encode(data, g) == poly_mul(data, g)

\* A variant of lookup whose default is position 0 instead of None.
lookup_default0(error_syndromes, syndrome) ==
    IF syndrome \in DOMAIN error_syndromes THEN error_syndromes[syndrome] ELSE 0

\* error_syndromes.get(tuple(syndrome), None); None is -1.
lookup(error_syndromes, syndrome) ==
    IF syndrome \in DOMAIN error_syndromes THEN error_syndromes[syndrome] ELSE -1

\* decode(received, H, g).  np.dot raises ValueError when the length of
\* received is not the number of columns of H.  The branch taken (the line
\* printed) is recorded as the status.
decode(received, Hm, g) ==
    IF Len(received) # Len(Hm[1])
    THEN [exc |-> "ValueError", status |-> "none", syndrome |-> <<>>,
          table |-> <<>>, error_index |-> -1, word |-> received,
          result |-> <<>>]
    ELSE LET Hf == flip(Hm)
             syndrome == dot2(Hf, received)
         IN IF \E r \in 1..Len(syndrome) : syndrome[r] # 0
            THEN LET error_syndromes == generate_error_syndromes(Hf, Len(received))
                     error_index == lookup(error_syndromes, syndrome)
                 IN IF error_index # -1
                    THEN LET fixed == [received EXCEPT ![error_index + 1] = 1 - @]
                         IN [exc |-> "none", status |-> "Corrected",
                             syndrome |-> syndrome, table |-> error_syndromes,
                             error_index |-> error_index, word |-> fixed,
                             result |-> poly_div(fixed, g)]
                    ELSE [exc |-> "none", status |-> "Uncorrectable",
                          syndrome |-> syndrome, table |-> error_syndromes,
                          error_index |-> -1, word |-> received,
                          result |-> poly_div(received, g)]
            ELSE [exc |-> "none", status |-> "NoError",
                  syndrome |-> syndrome, table |-> <<>>,
                  error_index |-> -1, word |-> received,
                  result |-> poly_div(received, g)]

(***************************************************************************)
(* The inputs: every (n, k) with 1 <= k < n <= MaxN and every generator    *)
(* with leading coefficient 1 whose degree is n-k-1, n-k or n-k+1 (and at  *)
(* least 1), plus the configuration of main().                             *)
(***************************************************************************)
Generators(n, k) ==
    UNION {{g \in BitSeqs(d + 1) : g[1] = 1} :
              d \in {e \in (n - k - 1)..(n - k + 1) : e >= 1}}

MainConfig == [n |-> MainN, k |-> MainK, g |-> MainG]

Configs ==
    UNION {UNION {{[n |-> n, k |-> k, g |-> g] : g \in Generators(n, k)} :
                     k \in 1..(n - 1)} : n \in 2..MaxN}
    \cup {MainConfig}

\* Messages offered to encode: length k, and for the small configurations
\* also the neighbouring lengths.
Messages(c) ==
    UNION {BitSeqs(l) : l \in {x \in (c.k - 1)..(c.k + 1) :
                                  x >= 1 /\ (x = c.k \/ c.n <= MaxN)}}

\* code     n, k and g of main (lines 102-103)
\* G, H     the matrices returned by generate_matrices (line 105)
\* pc       where main stands: "start", "built", "ready" (a word awaits
\*          decode), "decoded", or "raised" (a call raised)
\* exc      the exception raised, "none" if none
\* origin   whether the word came from encode or is an arbitrary word
\* message  the argument of encode (line 107)
\* encoded  the result of encode (line 113)
\* word     encoded_with_error (lines 117-118), the argument of decode
\* flips    the indices flipped in word (line 118)
\* out      what decode did: branch, syndrome, table, index, the word
\*          divided by g, and the result
VARIABLES code, G, H, pc, exc, origin, message, encoded, word, flips, out

vars == <<code, G, H, pc, exc, origin, message, encoded, word, flips, out>>

NoOut == [exc |-> "none", status |-> "none", syndrome |-> <<>>,
          table |-> <<>>, error_index |-> -1, word |-> <<>>, result |-> <<>>]

Init ==
    /\ code \in Configs
    /\ G = <<>>
    /\ H = <<>>
    /\ pc = "start"
    /\ exc = "none"
    /\ origin = "none"
    /\ message = <<>>
    /\ encoded = <<>>
    /\ word = <<>>
    /\ flips = {}
    /\ out = NoOut

\* main line 105: G, H = generate_matrices(n, k, g)
GenerateMatrices ==
    /\ pc = "start"
    /\ LET m == generate_matrices(code.n, code.k, code.g)
       IN /\ G' = m.G
          /\ H' = m.H
          /\ exc' = m.exc
          /\ pc' = IF m.exc = "none" THEN "built" ELSE "raised"
    /\ UNCHANGED <<code, origin, message, encoded, word, flips, out>>

\* main line 113: encoded = encode(message, g); line 117 copies it.
Encode ==
    /\ pc = "built"
    /\ \E m \in Messages(code) :
          /\ message' = m
          /\ encoded' = encode(m, code.g)
    /\ word' = encoded'
    /\ origin' = "encode"
    /\ pc' = "ready"
    /\ UNCHANGED <<code, G, H, exc, flips, out>>

\* main line 118: encoded_with_error[i] ^= 1; IndexError past the end.
FlipBit(i) ==
    /\ pc = "ready"
    /\ origin = "encode"
    /\ i \notin flips
    /\ Cardinality(flips) < MaxFlips
    /\ IF i < Len(word)
       THEN /\ word' = [word EXCEPT ![i + 1] = 1 - @]
            /\ flips' = flips \cup {i}
            /\ UNCHANGED <<pc, exc>>
       ELSE /\ pc' = "raised"
            /\ exc' = "IndexError"
            /\ UNCHANGED <<word, flips>>
    /\ UNCHANGED <<code, G, H, origin, message, encoded, out>>

\* An arbitrary n-bit word handed to decode (small configurations).
Receive ==
    /\ pc = "built"
    /\ code.n <= MaxN
    /\ \E r \in BitSeqs(code.n) : word' = r
    /\ origin' = "channel"
    /\ pc' = "ready"
    /\ UNCHANGED <<code, G, H, exc, message, encoded, flips, out>>

\* main line 121: decoded = decode(encoded_with_error, H, g)
Decode ==
    /\ pc = "ready"
    /\ out' = decode(word, H, code.g)
    /\ exc' = out'.exc
    /\ pc' = IF out'.exc = "none" THEN "decoded" ELSE "raised"
    /\ UNCHANGED <<code, G, H, origin, message, encoded, word, flips>>

Next ==
    \/ GenerateMatrices
    \/ Encode
    \/ \E i \in 0..(code.n - 1) : FlipBit(i)
    \/ Receive
    \/ Decode

Spec == Init /\ [][Next]_vars

(***************************************************************************)
(* Vocabulary of the properties.                                           *)
(***************************************************************************)

\* degree(g) = n - k (every generator considered has leading coefficient 1).
Valid == Len(Poly(code.g)) - 1 = code.n - code.k

\* decode has been called: it returned a status or raised.
DecodeCalled == out.status # "none" \/ out.exc # "none"

DecodeReturned == out.status # "none"

Weight(a) == Cardinality({i \in 1..Len(a) : a[i] = 1})

\* The coefficient of x^e in a highest-degree-first list a.
Coef(a, e) == IF e >= 0 /\ e < Len(a) THEN a[Len(a) - e] ELSE 0

\* The coefficient of x^e in the GF(2) product a(x) * b(x).
ProdCoef(a, b, e) ==
    Cardinality({i \in 0..e : Coef(a, i) = 1 /\ Coef(b, e - i) = 1}) % 2

\* Reference remainder of a(x) modulo g(x), as d = degree(g) coefficients,
\* highest degree first, by Horner's rule: the accumulator is multiplied by
\* x and reduced by g, then the next coefficient of a is added.
RECURSIVE RemRef(_, _, _, _)
RemRef(a, g, p, acc) ==
    IF p > Len(a) THEN acc
    ELSE LET d == Len(g) - 1
             carry == Head(acc)
             shifted == Tail(acc) \o <<a[p]>>
             low == Tail(g)
         IN RemRef(a, g, p + 1,
                   [i \in 1..d |-> (shifted[i] + carry * low[i]) % 2])

Remainder(a, g) == RemRef(a, g, 1, Zeros(Len(g) - 1))

UnitWord(n, i) == [p \in 1..n |-> IF p = i + 1 THEN 1 ELSE 0]

\* The syndrome of a single error at list index i.
UnitSyndrome(i) == Remainder(UnitWord(code.n, i), code.g)

\* x * s(x) mod g(x) for a remainder s of degree(g) coefficients.
MulX(s, g) ==
    LET shifted == Tail(s) \o <<0>>
        low == Tail(g)
    IN IF Head(s) = 0 THEN shifted
       ELSE [i \in 1..Len(s) |-> (shifted[i] + low[i]) % 2]

\* <<x^(n-1) mod g, ..., x^1 mod g, x^0 mod g>>: entry i + 1 is the
\* remainder of the unit word with its 1 at list index i.
RECURSIVE PowerRemainders(_, _)
PowerRemainders(n, g) ==
    IF n = 1 THEN <<Zeros(Len(g) - 2) \o <<1>>>>
    ELSE LET rest == PowerRemainders(n - 1, g)
         IN <<MulX(Head(rest), g)>> \o rest

NonZero(s) == \E r \in 1..Len(s) : s[r] # 0

\* The code {m(x) g(x)} has minimum distance at least 3.
MinDistance3 ==
    \A m \in BitSeqs(code.k) :
        NonZero(m) => Weight(PolyMul(Poly(m), Poly(code.g))) >= 3

(***************************************************************************)
(* C1.  Round trip: for a valid configuration and every message m of       *)
(* length k, decoding encode(m, g) takes the no-error branch and returns   *)
(* exactly m.                                                              *)
(***************************************************************************)
C1_RoundTrip ==
    (/\ Valid
     /\ origin = "encode"
     /\ Len(message) = code.k
     /\ flips = {}
     /\ DecodeCalled)
    => (/\ pc = "decoded"
        /\ out.status = "NoError"
        /\ out.result = message)

(***************************************************************************)
(* C2.  Single-error correction: for a valid configuration of minimum      *)
(* distance >= 3, every message m of length k and every index i in [0, n), *)
(* decoding encode(m, g) with bit i flipped takes the corrected branch     *)
(* with error index i and returns m.                                       *)
(***************************************************************************)
C2_SingleErrorCorrection ==
    (/\ Valid
     /\ origin = "encode"
     /\ Len(message) = code.k
     /\ Cardinality(flips) = 1
     /\ DecodeCalled
     /\ MinDistance3)
    => (/\ pc = "decoded"
        /\ out.status = "Corrected"
        /\ flips = {out.error_index}
        /\ out.result = message)

(***************************************************************************)
(* C3.  encode(m, g) returns, for every message of length k and generator  *)
(* of degree n - k, exactly n coefficients, those of m(x) g(x), whatever   *)
(* the leading bits of m.                                                  *)
(***************************************************************************)
C3_EncodeLength ==
    (/\ Valid
     /\ origin = "encode"
     /\ Len(message) = code.k)
    => (/\ Len(encoded) = code.n
        /\ \A e \in 0..(code.n - 1) :
              Coef(encoded, e) = ProdCoef(message, code.g, e))

(***************************************************************************)
(* C4.  Orthogonality: for a valid configuration the matrices returned by  *)
(* generate_matrices satisfy H * G^T = 0 (mod 2).                          *)
(***************************************************************************)
C4_Orthogonality ==
    (Valid /\ pc = "built")
    => \A r \in 1..Len(H) : \A i \in 1..Len(G) :
          Cardinality({c \in 1..code.n : H[r][c] = 1 /\ G[i][c] = 1}) % 2 = 0

(***************************************************************************)
(* C5.  encode called with a message whose length is not k fails with      *)
(* InvalidMessageLength and produces no codeword.                          *)
(***************************************************************************)
C5_InvalidMessageLength ==
    (origin = "encode" /\ Len(message) # code.k)
    => (exc = "InvalidMessageLength" /\ encoded = <<>>)

(***************************************************************************)
(* C6.  generate_matrices fails with InvalidGeneratorDegree, returning no  *)
(* G or H, whenever degree(g) # n - k.                                     *)
(***************************************************************************)
C6_InvalidGeneratorDegree ==
    (pc # "start" /\ ~Valid)
    => (exc = "InvalidGeneratorDegree" /\ G = <<>> /\ H = <<>>)

(***************************************************************************)
(* C7.  generate_error_syndromes flags AmbiguousSyndromeTable when two     *)
(* distinct positions have the same nonzero syndrome, instead of           *)
(* overwriting the earlier entry.                                          *)
(***************************************************************************)
C7_AmbiguousSyndromeTable ==
    (/\ DecodeReturned
     /\ out.table # <<>>
     /\ \E i, j \in 0..(code.n - 1) :
           /\ i # j
           /\ UnitSyndrome(i) = UnitSyndrome(j)
           /\ NonZero(UnitSyndrome(i)))
    => exc = "AmbiguousSyndromeTable"

(***************************************************************************)
(* C8.  In decode, when the syndrome of the received word is nonzero and   *)
(* is the syndrome of no single-bit error, no bit is flipped: the outcome  *)
(* is Uncorrectable and the word divided by g is the received word.  A bit *)
(* is flipped only at a position the lookup returned.                      *)
(***************************************************************************)
ReceivedSyndrome == dot2(flip(H), word)

\* Column i of flip(H): the key generate_error_syndromes stores for i.
FlippedColumn(i) == [r \in 1..Len(H) |-> H[Len(H) + 1 - r][code.n - i]]

TableKeys == {FlippedColumn(i) : i \in 0..(code.n - 1)}

C8_NoFlipWithoutLookup ==
    DecodeReturned =>
        /\ (NonZero(ReceivedSyndrome) /\ ReceivedSyndrome \notin TableKeys)
             => (out.status = "Uncorrectable" /\ out.word = word)
        /\ out.word # word
             => /\ out.status = "Corrected"
                /\ out.error_index \in 0..(code.n - 1)
                /\ FlippedColumn(out.error_index) = ReceivedSyndrome
                /\ out.word = [word EXCEPT ![out.error_index + 1] = 1 - @]

C8_Witness ==
    /\ Valid
    /\ pc = "decoded"
    /\ out.status = "Uncorrectable"
    /\ NonZero(ReceivedSyndrome)
    /\ ReceivedSyndrome \notin TableKeys
    /\ out.word = word

(***************************************************************************)
(* C9.  For a valid configuration H has n - k rows and n columns, and      *)
(* H[i][j] is the coefficient of x^i in the remainder of x^j divided by    *)
(* g(x): column j, read as a polynomial of degree < n - k, differs from    *)
(* x^j by a multiple q(x) g(x) of the generator.                           *)
(***************************************************************************)
\* Column j of H as a highest-degree-first list (row index = coefficient).
HColumn(j) == [p \in 1..Len(H) |-> H[Len(H) + 1 - p][j + 1]]

IsRemainderOfPower(r, j) ==
    LET d == Len(code.g) - 1
        QDegs == 0..(j - d)
    IN \E q \in [QDegs -> Bit] :
          \A e \in 0..j :
              (Cardinality({a \in QDegs : q[a] = 1 /\ Coef(code.g, e - a) = 1})
                 + Coef(r, e)) % 2
              = (IF e = j THEN 1 ELSE 0)

SyndromeIsRemainder == out.syndrome = Remainder(word, code.g)

====
